---------------------------- MODULE Spec2Model ----------------------------
(***************************************************************************)
(* A model of git_script.py: the backfill driver (date scheduler and the   *)
(* commit/push loop), the commit-type selection of generate_commit_message *)
(* with _classify_change, and the per-file rewrite of touch_files.         *)
(*                                                                         *)
(* Three specifications share the module's variables:                      *)
(*   Spec       one run of backfill(start, end, commits, branch,           *)
(*              max_per_day), one step per statement that talks to the     *)
(*              outside world;                                             *)
(*   SpecMsg    generate_commit_message on a batch of files, one step per  *)
(*              file of the batch, then pick_type;                         *)
(*   SpecTouch  the body of the for loop of touch_files on one file.       *)
(* Time is counted in ticks, TicksPerDay ticks to a calendar day, so that  *)
(* datetime.fromisoformat values with a time of day are covered too.       *)
(***************************************************************************)
EXTENDS Integers, Sequences, FiniteSets, TLC

VARIABLES
    \* ---- backfill ----
    start_dt,        \* datetime.fromisoformat(start), in ticks
    end_dt,          \* datetime.fromisoformat(end), in ticks
    commits,         \* --commits
    max_per_day,     \* --max-per-day
    allfiles,        \* number of files git ls-files reports (regular files)
    pc,              \* position of the run
    exitmsg,         \* message of the SystemExit raised, "" when none
    failed,          \* the external command whose non-zero exit raised, or "none"
    possible_dates,  \* the day-slot pool
    sampled,         \* random.sample of line 234 has been called
    chosen_dates,    \* sorted(random.sample(possible_dates, commits))
    it,              \* index in chosen_dates of the current loop iteration
    batch,           \* size of the batch of the current iteration
    modified,        \* the working tree holds file mutations not yet staged
    staged,          \* the index holds staged changes not yet committed
    nCmd,            \* external commands issued so far
    nCheckout, nTouch, nAdd, nMsg, nCommit, nPush,
    \* ---- generate_commit_message ----
    files,           \* the batch, a sequence of paths
    fidx,            \* index of the next file of the for loop of line 170
    overall_kinds,   \* the Counter overall_kinds
    commit_type,     \* result of pick_type, "" before
    mpc,             \* position in generate_commit_message
    seen,            \* history: what the diffs read so far held on changed lines
    \* ---- touch_files ----
    file,            \* the file visited: [suffix, st_size]
    lines,           \* f.readlines()
    new_lines,       \* the edited copy
    written,         \* what f.writelines wrote, <<>> when nothing was written
    tpc              \* position in the loop body

bvars == <<start_dt, end_dt, commits, max_per_day, allfiles, pc, exitmsg, failed,
           possible_dates, sampled, chosen_dates, it, batch, modified, staged,
           nCmd, nCheckout, nTouch, nAdd, nMsg, nCommit, nPush>>
mvars == <<files, fidx, overall_kinds, commit_type, mpc, seen>>
tvars == <<file, lines, new_lines, written, tpc>>
vars == <<bvars, mvars, tvars>>

-----------------------------------------------------------------------------
(* Bounds of the model *)

TicksPerDay == 2      \* resolution of a timestamp: half days
MaxTick == 4          \* start and end range over 0..MaxTick
MaxPerDay == 2        \* max_per_day, a count, ranges over 0..MaxPerDay
MaxCommits == 3       \* commits ranges over -1..MaxCommits
MaxAllFiles == 1      \* git ls-files reports 0..MaxAllFiles or NumFilesHi files

(* Program constants *)
NumFilesLo == 5       \* random.randint(5, 10)
NumFilesHi == 10

MaxBatch == 2         \* generate_commit_message gets 0..MaxBatch files
MaxDiffLines == 2     \* a git diff --cached output has 0..MaxDiffLines lines
MaxLines == 6         \* a file touch_files reads has 0..MaxLines lines

SizeLimit == 100000   \* st_size above which a file is passed over
PyBlankMin == 5       \* a .py file gets a blank line only if len > 5
OtherBlankMin == 3    \* another file gets a blank line only if len > 3
DocIndent == 4        \* a docstring is indented 4 more than its def

Min(a, b) == IF a < b THEN a ELSE b

-----------------------------------------------------------------------------
(* backfill: the date scheduler *)

\* (end_dt - start_dt).days + 1; timedelta.days is the floor of the difference
total_days == ((end_dt - start_dt) \div TicksPerDay) + 1

\* one copy too many
Repeat_OneMore(day, n) == [j \in 1..(n + 1) |-> day]

\* [day] * n: n copies of day, the empty list when n <= 0
Repeat(day, n) == [j \in 1..n |-> day]

\* the loop of lines 226-229 over range(k)
RECURSIVE PoolUpTo(_)
PoolUpTo(k) ==
    IF k <= 0 THEN <<>>
    ELSE PoolUpTo(k - 1) \o Repeat(start_dt + (k - 1) * TicksPerDay, max_per_day)

\* random.sample(population, k): k elements at distinct positions, in any order
Samples(population, k) ==
    { [j \in 1..k |-> population[p[j]]] :
        p \in { q \in [1..k -> DOMAIN population] :
                  \A a, b \in 1..k : a # b => q[a] # q[b] } }

\* sorted(): insertion of each element in turn into an ascending list
RECURSIVE InsertSorted(_, _)
InsertSorted(x, s) ==
    IF s = <<>> THEN <<x>>
    ELSE IF x < Head(s) THEN <<x>> \o s
    ELSE <<Head(s)>> \o InsertSorted(x, Tail(s))

RECURSIVE sorted(_)
sorted(s) == IF s = <<>> THEN <<>> ELSE InsertSorted(Head(s), sorted(Tail(s)))


\* line 234 without the sort
ChosenDates_Unsorted(sample) == sample

\* line 234: chosen_dates = sorted(sample)
ChosenDates(sample) == sorted(sample)

\* timestamp.date(): the calendar day of a timestamp
Date(ts) == ts \div TicksPerDay

-----------------------------------------------------------------------------
(* backfill: the run *)

EndBeforeStart == "End date must be after start date."
NoFiles == "No tracked or unignored files found."
CannotFit == "Cannot fit commits into range with max per day."

\* the sizes len(allfiles) may take: few files, or more than a batch asks for
AllFilesValues == (0..MaxAllFiles) \cup {NumFilesLo + MaxAllFiles}

\* raise SystemExit(msg)
SystemExit(msg) == pc' = "exit" /\ exitmsg' = msg

\* subprocess.run(cmd, check=True): a non-zero exit raises CalledProcessError,
\* which nothing in the script catches
Sh_NoCheck(cmd, ok, next) ==
    /\ nCmd' = nCmd + 1
    /\ pc' = next
    /\ failed' = IF ok THEN failed ELSE cmd

Sh(cmd, ok, next) ==
    /\ nCmd' = nCmd + 1
    /\ IF ok THEN pc' = next /\ failed' = failed
             ELSE pc' = "aborted" /\ failed' = cmd

\* lines 214-219
CheckRange_Strict ==
    /\ pc = "range"
    /\ IF total_days < 0
         THEN SystemExit(EndBeforeStart)
         ELSE pc' = "files" /\ exitmsg' = exitmsg
    /\ UNCHANGED <<mvars, tvars>>
    /\ UNCHANGED <<start_dt, end_dt, commits, max_per_day, allfiles, failed,
                   possible_dates, sampled, chosen_dates, it, batch, modified,
                   staged, nCmd, nCheckout, nTouch, nAdd, nMsg, nCommit, nPush>>

CheckRange ==
    /\ pc = "range"
    /\ IF total_days <= 0
         THEN SystemExit(EndBeforeStart)
         ELSE pc' = "files" /\ exitmsg' = exitmsg
    /\ UNCHANGED <<mvars, tvars>>
    /\ UNCHANGED <<start_dt, end_dt, commits, max_per_day, allfiles, failed,
                   possible_dates, sampled, chosen_dates, it, batch, modified,
                   staged, nCmd, nCheckout, nTouch, nAdd, nMsg, nCommit, nPush>>

\* lines 221-223, with tracked_files (git ls-files, read only)
TrackedFiles ==
    /\ pc = "files"
    /\ nCmd' = nCmd + 1
    /\ \E ok \in BOOLEAN :
         IF ~ok THEN pc' = "aborted" /\ failed' = "ls-files" /\ exitmsg' = exitmsg
         ELSE IF allfiles = 0
                THEN SystemExit(NoFiles) /\ failed' = failed
                ELSE pc' = "capacity" /\ failed' = failed /\ exitmsg' = exitmsg
    /\ UNCHANGED <<mvars, tvars>>
    /\ UNCHANGED <<start_dt, end_dt, commits, max_per_day, allfiles,
                   possible_dates, sampled, chosen_dates, it, batch, modified,
                   staged, nCheckout, nTouch, nAdd, nMsg, nCommit, nPush>>

\* lines 226-232
CheckCapacity_Ge ==
    /\ pc = "capacity"
    /\ possible_dates' = PoolUpTo(total_days)
    /\ IF commits >= Len(possible_dates')
         THEN SystemExit(CannotFit)
         ELSE pc' = "sample" /\ exitmsg' = exitmsg
    /\ UNCHANGED <<mvars, tvars>>
    /\ UNCHANGED <<start_dt, end_dt, commits, max_per_day, allfiles, failed,
                   sampled, chosen_dates, it, batch, modified, staged,
                   nCmd, nCheckout, nTouch, nAdd, nMsg, nCommit, nPush>>

\* the capacity check made only after the branch was switched
CheckCapacity_Late ==
    /\ pc = "capacity"
    /\ possible_dates' = PoolUpTo(total_days)
    /\ nCheckout' = nCheckout + 1
    /\ nCmd' = nCmd + 1
    /\ IF commits > Len(possible_dates')
         THEN SystemExit(CannotFit)
         ELSE pc' = "sample" /\ exitmsg' = exitmsg
    /\ UNCHANGED <<mvars, tvars>>
    /\ UNCHANGED <<start_dt, end_dt, commits, max_per_day, allfiles, failed,
                   sampled, chosen_dates, it, batch, modified, staged,
                   nTouch, nAdd, nMsg, nCommit, nPush>>

CheckCapacity ==
    /\ pc = "capacity"
    /\ possible_dates' = PoolUpTo(total_days)
    /\ IF commits > Len(possible_dates')
         THEN SystemExit(CannotFit)
         ELSE pc' = "sample" /\ exitmsg' = exitmsg
    /\ UNCHANGED <<mvars, tvars>>
    /\ UNCHANGED <<start_dt, end_dt, commits, max_per_day, allfiles, failed,
                   sampled, chosen_dates, it, batch, modified, staged,
                   nCmd, nCheckout, nTouch, nAdd, nMsg, nCommit, nPush>>

\* line 234; random.sample raises ValueError on a negative sample size
Sample ==
    /\ pc = "sample"
    /\ sampled' = TRUE
    /\ IF commits < 0 \/ commits > Len(possible_dates)
         THEN pc' = "crashed" /\ chosen_dates' = chosen_dates
         ELSE /\ \E s \in Samples(possible_dates, commits) :
                    chosen_dates' = ChosenDates(s)
              /\ pc' = "checkout"
    /\ UNCHANGED <<mvars, tvars>>
    /\ UNCHANGED <<start_dt, end_dt, commits, max_per_day, allfiles, exitmsg,
                   failed, possible_dates, it, batch, modified, staged,
                   nCmd, nCheckout, nTouch, nAdd, nMsg, nCommit, nPush>>

\* line 236
Checkout ==
    /\ pc = "checkout"
    /\ \E ok \in BOOLEAN :
         /\ Sh("checkout", ok, "loop")
         /\ nCheckout' = IF ok THEN nCheckout + 1 ELSE nCheckout
    /\ UNCHANGED <<mvars, tvars>>
    /\ UNCHANGED <<start_dt, end_dt, commits, max_per_day, allfiles, exitmsg,
                   possible_dates, sampled, chosen_dates, it, batch, modified,
                   staged, nTouch, nAdd, nMsg, nCommit, nPush>>

\* line 238: chosen_dates is exhausted
LoopDone ==
    /\ pc = "loop"
    /\ it = Len(chosen_dates)
    /\ pc' = "done"
    /\ UNCHANGED <<mvars, tvars>>
    /\ UNCHANGED <<start_dt, end_dt, commits, max_per_day, allfiles, exitmsg,
                   failed, possible_dates, sampled, chosen_dates, it, batch,
                   modified, staged, nCmd, nCheckout, nTouch, nAdd, nMsg,
                   nCommit, nPush>>

\* lines 238-241: the next timestamp, the batch, touch_files(batch), which
\* may or may not write a file
Touch ==
    /\ pc = "loop"
    /\ it < Len(chosen_dates)
    /\ \E num_files \in NumFilesLo..NumFilesHi : batch' = Min(num_files, allfiles)
    /\ \E wrote \in BOOLEAN : modified' = (modified \/ wrote)
    /\ nTouch' = nTouch + 1
    /\ pc' = "add"
    /\ UNCHANGED <<mvars, tvars>>
    /\ UNCHANGED <<start_dt, end_dt, commits, max_per_day, allfiles, exitmsg,
                   failed, possible_dates, sampled, chosen_dates, it, staged,
                   nCmd, nCheckout, nAdd, nMsg, nCommit, nPush>>

\* line 243
GitAdd ==
    /\ pc = "add"
    /\ \E ok \in BOOLEAN :
         /\ Sh("add", ok, "message")
         /\ staged' = IF ok THEN (staged \/ modified) ELSE staged
         /\ modified' = IF ok THEN FALSE ELSE modified
         /\ nAdd' = IF ok THEN nAdd + 1 ELSE nAdd
    /\ UNCHANGED <<mvars, tvars>>
    /\ UNCHANGED <<start_dt, end_dt, commits, max_per_day, allfiles, exitmsg,
                   possible_dates, sampled, chosen_dates, it, batch,
                   nCheckout, nTouch, nMsg, nCommit, nPush>>

\* line 244: generate_commit_message runs git diff twice for each file of the
\* batch (lines 171-177); the k-th of these commands may be the one that fails
Message ==
    /\ pc = "message"
    /\ \/ /\ nCmd' = nCmd + 2 * batch
          /\ pc' = "commit"
          /\ failed' = failed
          /\ nMsg' = nMsg + 1
       \/ \E k \in 1..(2 * batch) :
            /\ nCmd' = nCmd + k
            /\ pc' = "aborted"
            /\ failed' = "diff"
            /\ nMsg' = nMsg
    /\ UNCHANGED <<mvars, tvars>>
    /\ UNCHANGED <<start_dt, end_dt, commits, max_per_day, allfiles, exitmsg,
                   possible_dates, sampled, chosen_dates, it, batch, modified,
                   staged, nCheckout, nTouch, nAdd, nCommit, nPush>>

\* lines 245-249; a commit that skips the push of line 250
GitCommit_NoPush ==
    /\ pc = "commit"
    /\ \E ok \in BOOLEAN :
         /\ Sh("commit", ok, "loop")
         /\ staged' = IF ok THEN FALSE ELSE staged
         /\ nCommit' = IF ok THEN nCommit + 1 ELSE nCommit
         /\ it' = IF ok THEN it + 1 ELSE it
    /\ UNCHANGED <<mvars, tvars>>
    /\ UNCHANGED <<start_dt, end_dt, commits, max_per_day, allfiles, exitmsg,
                   possible_dates, sampled, chosen_dates, batch, modified,
                   nCheckout, nTouch, nAdd, nMsg, nPush>>

GitCommit ==
    /\ pc = "commit"
    /\ \E ok \in BOOLEAN :
         /\ Sh("commit", ok, "push")
         /\ staged' = IF ok THEN FALSE ELSE staged
         /\ nCommit' = IF ok THEN nCommit + 1 ELSE nCommit
    /\ UNCHANGED <<mvars, tvars>>
    /\ UNCHANGED <<start_dt, end_dt, commits, max_per_day, allfiles, exitmsg,
                   possible_dates, sampled, chosen_dates, it, batch, modified,
                   nCheckout, nTouch, nAdd, nMsg, nPush>>

\* lines 250-252, the end of one iteration
GitPush ==
    /\ pc = "push"
    /\ \E ok \in BOOLEAN :
         /\ Sh("push", ok, "loop")
         /\ nPush' = IF ok THEN nPush + 1 ELSE nPush
         /\ it' = IF ok THEN it + 1 ELSE it
    /\ UNCHANGED <<mvars, tvars>>
    /\ UNCHANGED <<start_dt, end_dt, commits, max_per_day, allfiles, exitmsg,
                   possible_dates, sampled, chosen_dates, batch, modified,
                   staged, nCheckout, nTouch, nAdd, nMsg, nCommit>>

\* variables of the other two specifications, at rest
MsgIdle ==
    /\ files = <<>> /\ fidx = 1 /\ overall_kinds = <<>>
    /\ commit_type = "" /\ mpc = "idle" /\ seen = {}
TouchIdle ==
    /\ file = <<>> /\ lines = <<>> /\ new_lines = <<>>
    /\ written = <<>> /\ tpc = "idle"

BackfillIdle ==
    /\ start_dt = 0 /\ end_dt = 0 /\ commits = 0 /\ max_per_day = 0
    /\ allfiles = 0 /\ pc = "idle" /\ exitmsg = "" /\ failed = "none"
    /\ possible_dates = <<>> /\ sampled = FALSE /\ chosen_dates = <<>>
    /\ it = 0 /\ batch = 0 /\ modified = FALSE /\ staged = FALSE
    /\ nCmd = 0 /\ nCheckout = 0 /\ nTouch = 0 /\ nAdd = 0 /\ nMsg = 0
    /\ nCommit = 0 /\ nPush = 0

\* backfill is called with the parsed command line (lines 257-265)
Init ==
    /\ start_dt \in 0..MaxTick
    /\ end_dt \in 0..MaxTick
    /\ commits \in -1..MaxCommits
    /\ max_per_day \in 0..MaxPerDay
    /\ allfiles \in AllFilesValues
    /\ pc = "range" /\ exitmsg = "" /\ failed = "none"
    /\ possible_dates = <<>> /\ sampled = FALSE /\ chosen_dates = <<>>
    /\ it = 0 /\ batch = 0 /\ modified = FALSE /\ staged = FALSE
    /\ nCmd = 0 /\ nCheckout = 0 /\ nTouch = 0 /\ nAdd = 0 /\ nMsg = 0
    /\ nCommit = 0 /\ nPush = 0
    /\ MsgIdle /\ TouchIdle

Next ==
    \/ CheckRange
    \/ TrackedFiles
    \/ CheckCapacity
    \/ Sample
    \/ Checkout
    \/ LoopDone
    \/ Touch
    \/ GitAdd
    \/ Message
    \/ GitCommit
    \/ GitPush

Spec == Init /\ [][Next]_vars

-----------------------------------------------------------------------------
(* Properties of backfill, checked under Spec *)

\* the run is past the capacity check of lines 231-232
PastCapacityCheck ==
    /\ pc \notin {"range", "files", "capacity"}
    /\ failed # "ls-files"
    /\ exitmsg \notin {EndBeforeStart, NoFiles}

\* chosen_dates has been computed
Accepted == sampled /\ pc # "crashed"

Occurrences(s, d) == Cardinality({j \in DOMAIN s : Date(s[j]) = d})

C3_ChosenDatesInRangeAscending ==
    Accepted =>
        /\ Len(chosen_dates) = commits
        /\ \A j \in DOMAIN chosen_dates :
              start_dt <= chosen_dates[j] /\ chosen_dates[j] <= end_dt
        /\ \A j \in DOMAIN chosen_dates :
              j > 1 => chosen_dates[j - 1] <= chosen_dates[j]

C3_Witness ==
    /\ pc = "done" /\ commits = 3
    /\ chosen_dates[1] < chosen_dates[2] /\ chosen_dates[2] = chosen_dates[3]

\* C4: for every accepted input, no calendar date occurs more than max_per_day
\* times among the sampled timestamps; the pool holds each day of the range
\* exactly max_per_day times.
C4_AtMostMaxPerDay ==
    /\ Accepted =>
          \A j \in DOMAIN chosen_dates :
              Occurrences(chosen_dates, Date(chosen_dates[j])) <= max_per_day
    /\ (PastCapacityCheck /\ total_days >= 1) =>
          \A k \in 0..(total_days - 1) :
              Occurrences(possible_dates, Date(start_dt + k * TicksPerDay))
                  = max_per_day

C4_Witness ==
    /\ pc = "done" /\ max_per_day = 2 /\ commits = 3 /\ total_days = 2
    /\ Occurrences(chosen_dates, Date(chosen_dates[1])) = 2

\* C7: each iteration runs touch, add, message, commit, push in that order and
\* the push of one commit completes before the next iteration starts: the
\* number of pushes is the number of commits or one less, and a run in which
\* every command succeeds ends with `commits` commits and `commits` pushes.
C7_PushAfterEveryCommit ==
    /\ nPush <= nCommit /\ nCommit <= nMsg /\ nMsg <= nAdd /\ nAdd <= nTouch
    /\ nTouch <= nPush + 1
    /\ nPush \in {nCommit, nCommit - 1}
    /\ pc = "done" => (nCommit = commits /\ nPush = commits /\ failed = "none")

C7_Witness ==
    /\ pc = "done" /\ commits = 2 /\ nCommit = 2 /\ nPush = 2 /\ nTouch = 2

\* C8: a non-zero exit of any external command aborts the run at once: the
\* step on which a command fails makes no commit and no push, leaves the
\* working tree and the index as they are, and nothing happens after it.
C8_AbortNoRetryNoRollback ==
    [][ /\ pc # "aborted"
        /\ (failed' # failed) =>
              /\ pc' = "aborted"
              /\ nCommit' = nCommit /\ nPush' = nPush
              /\ nTouch' = nTouch /\ nAdd' = nAdd
              /\ modified' = modified /\ staged' = staged
              /\ it' = it /\ chosen_dates' = chosen_dates ]_vars

C8_Witness ==
    /\ pc = "aborted" /\ failed = "add"
    /\ modified /\ nCommit = 1 /\ nPush = 1 /\ nTouch = 2

\* C10: when backfill exits on a configuration error, no state-changing
\* command has run (at most git ls-files was issued), and the checks are made
\* in the order date range, files, capacity.
C10_ConfigErrorsBeforeSideEffects ==
    /\ pc = "exit" =>
          /\ nCheckout = 0 /\ nTouch = 0 /\ nAdd = 0 /\ nMsg = 0
          /\ nCommit = 0 /\ nPush = 0
          /\ ~modified /\ ~staged /\ ~sampled
          /\ exitmsg \in {EndBeforeStart, NoFiles, CannotFit}
          /\ exitmsg = EndBeforeStart => (total_days <= 0 /\ nCmd = 0)
          /\ exitmsg = NoFiles => (total_days >= 1 /\ allfiles = 0 /\ nCmd = 1)
          /\ exitmsg = CannotFit =>
                (total_days >= 1 /\ allfiles > 0 /\ nCmd = 1
                   /\ commits > Len(possible_dates))
    /\ (pc # "range" /\ total_days <= 0) => (pc = "exit" /\ exitmsg = EndBeforeStart)
    /\ (pc \notin {"range", "files"} /\ total_days >= 1 /\ allfiles = 0
          /\ failed = "none") => (pc = "exit" /\ exitmsg = NoFiles)

C10_Witness ==
    /\ pc = "exit" /\ exitmsg = EndBeforeStart
    /\ allfiles = 0 /\ commits > 0 /\ max_per_day = 0

-----------------------------------------------------------------------------
(* generate_commit_message and _classify_change *)

(* A word is a sequence of characters; the text of a diff line is a sequence *)
(* of words (the line split at white space).  A diff line is a record        *)
(* [head, text]: head holds the characters before the first word boundary    *)
(* ("+", "-", "+++", "@@", or nothing for an empty line).                    *)

W_fix == <<"f", "i", "x">>
W_feat == <<"f", "e", "a", "t">>
W_refa == <<"r", "e", "f", "a">>
W_test == <<"t", "e", "s", "t">>
W_docs == <<"d", "o", "c", "s">>
W_Feature == <<"F", "e", "a", "t", "u", "r", "e">>
W_refactor == <<"r", "e", "f", "a", "c", "t", "o", "r">>
W_bug == <<"b", "u", "g">>
W_def == <<"d", "e", "f">>
W_class == <<"c", "l", "a", "s", "s">>
W_function == <<"f", "u", "n", "c", "t", "i", "o", "n">>
W_test_a == <<"t", "e", "s", "t", "_", "a">>
W_hash == <<"#">>
W_x == <<"x">>

UpperCase == <<"A","B","C","D","E","F","G","H","I","J","K","L","M",
               "N","O","P","Q","R","S","T","U","V","W","X","Y","Z">>
LowerCase == <<"a","b","c","d","e","f","g","h","i","j","k","l","m",
               "n","o","p","q","r","s","t","u","v","w","x","y","z">>

\* str.lower()
LowerChar(c) ==
    IF \E j \in DOMAIN UpperCase : UpperCase[j] = c
      THEN LowerCase[CHOOSE j \in DOMAIN UpperCase : UpperCase[j] = c]
      ELSE c
Lower(word) == [j \in DOMAIN word |-> LowerChar(word[j])]

\* s[:n]
Prefix(word, n) == SubSeq(word, 1, Min(n, Len(word)))

\* s.startswith(p)
StartsWith(word, p) == Len(word) >= Len(p) /\ SubSeq(word, 1, Len(p)) = p

\* the alternatives of _keyword_re (lines 124-127), matched between word
\* boundaries and without regard to case
Keywords == {
    <<"f", "i", "x">>,
    <<"b", "u", "g">>,
    <<"e", "r", "r", "o", "r">>,
    <<"i", "s", "s", "u", "e">>,
    <<"e", "x", "c", "e", "p", "t", "i", "o", "n">>,
    <<"t", "o", "d", "o">>,
    <<"r", "e", "f", "a", "c", "t", "o", "r">>,
    <<"f", "e", "a", "t", "u", "r", "e">>,
    <<"f", "e", "a", "t">>,
    <<"a", "d", "d">>,
    <<"a", "d", "d", "e", "d">>,
    <<"r", "e", "m", "o", "v", "e">>,
    <<"r", "e", "m", "o", "v", "e", "d">>}

IsKeyword(word) == Lower(word) \in Keywords

\* Counter: a missing key counts 0
Get(counter, key) == IF key \in DOMAIN counter THEN counter[key] ELSE 0

\* counter[key] += n
Add(counter, key, n) ==
    [k \in (DOMAIN counter) \cup {key} |->
        Get(counter, k) + (IF k = key THEN n ELSE 0)]

\* Counter.update(other): the counts of other are added
RECURSIVE UpdateKeys(_, _, _)
UpdateKeys(counter, other, keys) ==
    IF keys = {} THEN counter
    ELSE LET k == CHOOSE x \in keys : TRUE
         IN  UpdateKeys(Add(counter, k, other[k]), other, keys \ {k})
Update(counter, other) == UpdateKeys(counter, other, DOMAIN other)

\* line[1:].strip(), as words
Text(line) ==
    IF Len(line.head) <= 1 THEN line.text
    ELSE <<Tail(line.head)>> \o line.text

\* line 136: the lines _classify_change passes over
Skipped(line) ==
    \/ line.head = <<>>
    \/ line.head[1] \notin {"+", "-"}
    \/ StartsWith(line.head, <<"+", "+", "+">>)
    \/ StartsWith(line.head, <<"-", "-", "-">>)

\* lines 141-143: one count for each keyword found, under its first 4 letters
RECURSIVE CountKeywords(_, _)
CountKeywords(kinds, text) ==
    IF text = <<>> THEN kinds
    ELSE CountKeywords(
            IF IsKeyword(Head(text))
              THEN Add(kinds, Prefix(Lower(Head(text)), 4), 1)
              ELSE kinds,
            Tail(text))

\* lines 146-151; the 0.5 of line 151 is counted as one half
StructuralCues_NoDef(kinds, text) ==
    IF text = <<>> THEN kinds
    ELSE LET first == Head(text)
             k2 == IF \/ StartsWith(first, <<"t", "e", "s", "t", "_">>)
                      \/ StartsWith(first, <<"i", "t", "(">>)
                      \/ StartsWith(first, <<"d","e","s","c","r","i","b","e","(">>)
                     THEN Add(kinds, W_test, 1) ELSE kinds
             k3 == IF \/ StartsWith(first, <<"#">>)
                      \/ StartsWith(first, <<"/", "/">>)
                      \/ StartsWith(first, <<"/", "*">>)
                      \/ StartsWith(first, <<"*">>)
                      \/ StartsWith(first, <<"\"", "\"", "\"">>)
                     THEN Add(k2, W_docs, 1) ELSE k2
         IN  k3

StructuralCues(kinds, text) ==
    IF text = <<>> THEN kinds
    ELSE LET first == Head(text)
             k1 == IF first \in {W_def, W_class, W_function}
                     THEN Add(kinds, W_feat, 2) ELSE kinds
             k2 == IF \/ StartsWith(first, <<"t", "e", "s", "t", "_">>)
                      \/ StartsWith(first, <<"i", "t", "(">>)
                      \/ StartsWith(first, <<"d","e","s","c","r","i","b","e","(">>)
                     THEN Add(k1, W_test, 1) ELSE k1
             k3 == IF \/ StartsWith(first, <<"#">>)
                      \/ StartsWith(first, <<"/", "/">>)
                      \/ StartsWith(first, <<"/", "*">>)
                      \/ StartsWith(first, <<"*">>)
                      \/ StartsWith(first, <<"\"", "\"", "\"">>)
                     THEN Add(k2, W_docs, 1) ELSE k2
         IN  k3

\* lines 134-152, from the lines of diff onwards
RECURSIVE ClassifyFrom(_, _)
ClassifyFrom(kinds, diff) ==
    IF diff = <<>> THEN kinds
    ELSE IF Skipped(Head(diff)) THEN ClassifyFrom(kinds, Tail(diff))
    ELSE ClassifyFrom(
            StructuralCues(CountKeywords(kinds, Text(Head(diff))), Text(Head(diff))),
            Tail(diff))

_classify_change(diff) == ClassifyFrom(<<>>, diff)

\* A path is the sequence of its parts; the names the model uses
Paths == { <<"README.md">>, <<"tests", "notes.md">>, <<"tests", "a.css">>,
           <<"a.css">>, <<"src", "a.py">> }

\* Path.suffix, by the last part
Suffix(path) ==
    CASE path[Len(path)] \in {"README.md", "notes.md"} -> ".md"
      [] path[Len(path)] = "a.css" -> ".css"
      [] path[Len(path)] = "a.py" -> ".py"
      [] OTHER -> ""

\* "test" in name, for the names the model uses
ContainsTest(name) == name \in {"tests"}

AllMarkdown(fs) == \A j \in DOMAIN fs : Suffix(fs[j]) \in {".md", ".rst"}
AllTests(fs) ==
    \A j \in DOMAIN fs :
        ContainsTest(fs[j][1]) \/ Suffix(fs[j]) \in {".spec", ".test"}
AllStylesheets(fs) == \A j \in DOMAIN fs : Suffix(fs[j]) \in {".css", ".scss", ".sass"}

\* pick_type with the tests for fix and feat exchanged
pick_type_FeatFirst(kinds, fs) ==
    IF Get(kinds, W_feat) > 0 THEN "feat"
    ELSE IF Get(kinds, W_fix) > 0 THEN "fix"
    ELSE IF Get(kinds, W_refa) > 0 THEN "refactor"
    ELSE IF AllMarkdown(fs) THEN "docs"
    ELSE IF AllTests(fs) THEN "test"
    ELSE IF AllStylesheets(fs) THEN "style"
    ELSE "chore"

\* lines 186-199
pick_type(kinds, fs) ==
    IF Get(kinds, W_fix) > 0 THEN "fix"
    ELSE IF Get(kinds, W_feat) > 0 THEN "feat"
    ELSE IF Get(kinds, W_refa) > 0 THEN "refactor"
    ELSE IF AllMarkdown(fs) THEN "docs"
    ELSE IF AllTests(fs) THEN "test"
    ELSE IF AllStylesheets(fs) THEN "style"
    ELSE "chore"

\* the lines a staged diff is made of in the model
DiffLines == {
    [head |-> <<"+">>, text |-> <<W_hash, W_fix>>],
    [head |-> <<"-">>, text |-> <<W_Feature>>],
    [head |-> <<"+">>, text |-> <<W_refactor>>],
    [head |-> <<"+">>, text |-> <<W_def, W_x>>],
    [head |-> <<"+">>, text |-> <<W_test_a, W_bug>>],
    [head |-> <<"+">>, text |-> <<W_x>>],
    [head |-> <<"+", "+", "+">>, text |-> <<W_fix>>],
    [head |-> <<"@", "@">>, text |-> <<W_def>>],
    [head |-> <<>>, text |-> <<>>] }

Diffs == UNION { [1..n -> DiffLines] : n \in 0..MaxDiffLines }
\* a batch is a random.sample of the tracked files (line 240): its paths differ
Batches ==
    { b \in UNION { [1..n -> Paths] : n \in 0..MaxBatch } :
        \A j, k \in DOMAIN b : j # k => b[j] # b[k] }

EmptyCounter == [k \in {} |-> 0]

\* history: the categories the changed lines of a diff name, read off the
\* diff text itself
Changed(line) ==
    /\ line.head # <<>>
    /\ line.head[1] \in {"+", "-"}
    /\ Prefix(line.head, 3) \notin {<<"+", "+", "+">>, <<"-", "-", "-">>}
Names(line, words) == \E j \in DOMAIN line.text : Lower(line.text[j]) \in words
SeenIn(diff) ==
    {c \in {"fix", "feat", "refactor", "cue"} :
        \E j \in DOMAIN diff :
            /\ Changed(diff[j])
            /\ CASE c = "fix" -> Names(diff[j], {W_fix})
                 [] c = "feat" -> Names(diff[j], {W_feat, Lower(W_Feature)})
                 [] c = "refactor" -> Names(diff[j], {W_refactor})
                 [] c = "cue" -> /\ diff[j].text # <<>>
                                 /\ diff[j].text[1] \in {W_def, W_class, W_function}}

\* what git diff may return for a file, as far as the run can tell: the
\* tally of _classify_change (line 180) with the history of the same diff
DiffResults ==
    { [kinds |-> _classify_change(diff), seen |-> SeenIn(diff)] : diff \in Diffs }

\* lines 165-166: an empty batch
MsgEmpty ==
    /\ mpc = "start"
    /\ files = <<>>
    /\ commit_type' = "chore"
    /\ mpc' = "done"
    /\ UNCHANGED <<files, fidx, overall_kinds, seen>>
    /\ UNCHANGED <<bvars, tvars>>

\* lines 170-183: one file of the batch, with the diff git reports for it
ClassifyFile ==
    /\ mpc = "start"
    /\ fidx <= Len(files)
    /\ \E r \in DiffResults :
         /\ overall_kinds' = Update(overall_kinds, r.kinds)
         /\ seen' = seen \cup r.seen
    /\ fidx' = fidx + 1
    /\ UNCHANGED <<files, commit_type, mpc>>
    /\ UNCHANGED <<bvars, tvars>>

\* lines 201-208
PickType ==
    /\ mpc = "start"
    /\ files # <<>>
    /\ fidx > Len(files)
    /\ commit_type' = pick_type(overall_kinds, files)
    /\ mpc' = "done"
    /\ UNCHANGED <<files, fidx, overall_kinds, seen>>
    /\ UNCHANGED <<bvars, tvars>>

InitMsg ==
    /\ files \in Batches
    /\ fidx = 1 /\ overall_kinds = EmptyCounter /\ commit_type = ""
    /\ mpc = "start" /\ seen = {}
    /\ BackfillIdle /\ TouchIdle

NextMsg ==
    \/ MsgEmpty
    \/ ClassifyFile
    \/ PickType

SpecMsg == InitMsg /\ [][NextMsg]_vars

-----------------------------------------------------------------------------
(* Properties of generate_commit_message, checked under SpecMsg *)

Tallied(key) == Get(overall_kinds, key) > 0

\* C5: for a non-empty batch the type is chosen by the fixed precedence
\* fix > feat > refactor > docs (all files markdown/rst) > test (all files
\* test paths) > style (all files stylesheets) > chore: a type of higher
\* precedence that applies wins whatever the counts and the suffixes are, and
\* chore is chosen only when no other type applies.  fix, feat and refactor
\* apply when their tally is positive, which is when a changed line of the
\* diff names them.
C5_TypePrecedence ==
    (mpc = "done" /\ files # <<>>) =>
        /\ Tallied(W_fix) <=> ("fix" \in seen)
        /\ Tallied(W_feat) <=> ("feat" \in seen \/ "cue" \in seen)
        /\ Tallied(W_refa) <=> ("refactor" \in seen)
        /\ commit_type = "fix" <=> Tallied(W_fix)
        /\ commit_type = "feat" <=> (~Tallied(W_fix) /\ Tallied(W_feat))
        /\ commit_type = "refactor" <=>
              (~Tallied(W_fix) /\ ~Tallied(W_feat) /\ Tallied(W_refa))
        /\ commit_type = "docs" <=>
              (~Tallied(W_fix) /\ ~Tallied(W_feat) /\ ~Tallied(W_refa)
                 /\ AllMarkdown(files))
        /\ commit_type = "test" <=>
              (~Tallied(W_fix) /\ ~Tallied(W_feat) /\ ~Tallied(W_refa)
                 /\ ~AllMarkdown(files) /\ AllTests(files))
        /\ commit_type = "style" <=>
              (~Tallied(W_fix) /\ ~Tallied(W_feat) /\ ~Tallied(W_refa)
                 /\ ~AllMarkdown(files) /\ ~AllTests(files)
                 /\ AllStylesheets(files))
        /\ commit_type = "chore" <=>
              (~Tallied(W_fix) /\ ~Tallied(W_feat) /\ ~Tallied(W_refa)
                 /\ ~AllMarkdown(files) /\ ~AllTests(files)
                 /\ ~AllStylesheets(files))

\* one fix against three feat in a markdown batch: fix
C5_Witness ==
    /\ mpc = "done" /\ commit_type = "fix"
    /\ AllMarkdown(files) /\ Len(files) = 2
    /\ Get(overall_kinds, W_fix) = 1 /\ Get(overall_kinds, W_feat) = 3

\* C6 as stated: a batch of markdown files only, whose diff has none of the
\* keywords fix, feat/feature, refactor on its changed lines, gets type docs,
\* lines that begin with def, class or function included.
C6_MarkdownIsDocs ==
    (mpc = "done" /\ files # <<>> /\ AllMarkdown(files)
       /\ seen \cap {"fix", "feat", "refactor"} = {}) =>
        commit_type = "docs"

\* C6 amended: a batch of markdown files only, whose diff has none of the
\* keywords fix, feat/feature, refactor on its changed lines and no changed
\* line that begins with def, class or function, gets type docs; with such a
\* line and no fix keyword it gets type feat.
C6_MarkdownIsDocsUnlessCue ==
    (mpc = "done" /\ files # <<>> /\ AllMarkdown(files)
       /\ seen \cap {"fix", "feat", "refactor"} = {}) =>
        /\ "cue" \notin seen => commit_type = "docs"
        /\ "cue" \in seen => commit_type = "feat"

C6_Witness ==
    /\ mpc = "done" /\ commit_type = "docs"
    /\ files = <<<<"README.md">>, <<"tests", "notes.md">>>>
    /\ seen = {}
    /\ Get(overall_kinds, W_bug) = 1 /\ Get(overall_kinds, W_test) = 1

-----------------------------------------------------------------------------
(* touch_files: the body of the loop, for one file *)

(* A line is a sequence of characters, as f.readlines() returns it: it ends  *)
(* with "\n", except possibly the last line of a file.  The sentence of a    *)
(* docstring is kept as one element.  Positions are those of Python, from 0. *)

IsSpace(c) == c \in {" ", "\n", "\t", "\r"}
IsWordChar(c) == c \in {"d", "e", "f", "x", "_"}

\* str.rstrip(), str.lstrip(), str.strip()
RECURSIVE RStrip(_)
RStrip(line) ==
    IF line = <<>> THEN <<>>
    ELSE IF IsSpace(line[Len(line)]) THEN RStrip(SubSeq(line, 1, Len(line) - 1))
    ELSE line
RECURSIVE LStrip(_)
LStrip(line) ==
    IF line = <<>> THEN <<>>
    ELSE IF IsSpace(Head(line)) THEN LStrip(Tail(line))
    ELSE line
Strip(line) == LStrip(RStrip(line))

\* str.endswith("\n")
EndsWithNewline(line) == line # <<>> /\ line[Len(line)] = "\n"

\* list.insert(idx, x)
Insert(ls, idx, x) == SubSeq(ls, 1, idx) \o <<x>> \o SubSeq(ls, idx + 1, Len(ls))

\* ls[idx]
At(ls, idx) == ls[idx + 1]

\* lines 54-56 and 91-93: a blank line before idx, between two non-blank lines
CanInsertBlank(ls, idx) == Strip(At(ls, idx)) # <<>> /\ Strip(At(ls, idx - 1)) # <<>>

\* lines 60-61 and 84-85, for one line
NeedsTrim(line) == RStrip(line) # line /\ Strip(line) # <<>>
Trim(line) ==
    IF NeedsTrim(line)
      THEN IF EndsWithNewline(line) THEN RStrip(line) \o <<"\n">> ELSE RStrip(line)
      ELSE line
TrimAll(ls) == [j \in DOMAIN ls |-> Trim(ls[j])]
AnyTrim(ls) == \E j \in DOMAIN ls : NeedsTrim(ls[j])

\* re.match(r"^\s*def\s+\w+", line)
IsDef(line) ==
    LET t == LStrip(line)
    IN  /\ Len(t) >= 5
        /\ SubSeq(t, 1, 3) = <<"d", "e", "f">>
        /\ IsSpace(t[4])
        /\ LET u == LStrip(SubSeq(t, 4, Len(t)))
           IN  u # <<>> /\ IsWordChar(u[1])

\* line 68: the next line opens a docstring
OpensDocstring(line) ==
    LET t == Strip(line)
    IN  \/ (Len(t) >= 3 /\ SubSeq(t, 1, 3) = <<"\"", "\"", "\"">>)
        \/ (Len(t) >= 3 /\ SubSeq(t, 1, 3) = <<"'", "'", "'">>)

DocTexts == {"Helper function", "Process data", "Validate input", "Format output"}

\* lines 69-75
Docstring(line, text) ==
    [j \in 1..((Len(line) - Len(LStrip(line))) + DocIndent) |-> " "]
        \o <<"\"", "\"", "\"", text, ".", "\"", "\"", "\"", "\n">>

\* lines 66-78: the positions i at which the loop inserts and breaks
DocPositions(ls) ==
    {i \in 0..(Len(ls) - 1) :
        /\ IsDef(At(ls, i)) /\ i + 1 < Len(ls) /\ ~OpensDocstring(At(ls, i + 1))}
FirstDocPosition(ls) ==
    LET found == DocPositions(ls)
    IN  CHOOSE i \in found : \A k \in found : i <= k

\* lines 98-101 made to end every file with a newline
EnsureNewline_Always(orig, new) ==
    IF new # <<>> /\ ~EndsWithNewline(new[Len(new)])
      THEN [new EXCEPT ![Len(new)] = @ \o <<"\n">>]
      ELSE new

\* lines 98-101
EnsureNewline(orig, new) ==
    IF orig # <<>> /\ EndsWithNewline(orig[Len(orig)])
          /\ new # <<>> /\ ~EndsWithNewline(new[Len(new)])
      THEN [new EXCEPT ![Len(new)] = @ \o <<"\n">>]
    ELSE IF orig # <<>> /\ ~EndsWithNewline(orig[Len(orig)])
          /\ new # <<>> /\ EndsWithNewline(new[Len(new)])
      THEN [new EXCEPT ![Len(new)] = RStrip(@)]
    ELSE new

\* the text of the lines a file of the model is made of
Bodies == { <<>>, <<"d", "e", "f", " ", "f">>, <<"\"", "\"", "\"">> }
LastLines ==
    {b \o <<"\n">> : b \in Bodies}
      \cup (Bodies \ {<<>>}) \cup { <<"x", " ">>, <<" ">> }
FileContents ==
    {<<>>} \cup
    UNION { { [j \in 1..n |-> IF j < n THEN b[j] \o <<"\n">> ELSE last] :
                b \in [1..(n - 1) -> Bodies], last \in LastLines } :
            n \in 1..MaxLines }

\* number of characters of the content
RECURSIVE Size(_)
Size(ls) == IF ls = <<>> THEN 0 ELSE Len(Head(ls)) + Size(Tail(ls))

\* f.writelines(ls): the lines one after the other
RECURSIVE Content(_)
Content(ls) == IF ls = <<>> THEN <<>> ELSE Head(ls) \o Content(Tail(ls))

\* lines 36-43, 106-108: the file is passed over, also when reading it raises
\* one of the errors of line 106
Skip ==
    /\ tpc = "start"
    /\ \E raises \in BOOLEAN :
         \/ file.suffix = ""
         \/ file.st_size > SizeLimit
         \/ lines = <<>>
         \/ raises
    /\ tpc' = "skipped"
    /\ UNCHANGED <<file, lines, new_lines, written>>
    /\ UNCHANGED <<bvars, mvars>>

\* lines 95-104, with the edited lines and changes_made; random.random() of
\* line 96 is drawn only when no change was made
Write(edited, changes_made) ==
    \E anyway \in IF changes_made THEN {FALSE} ELSE BOOLEAN :
        IF changes_made \/ anyway
          THEN /\ new_lines' = EnsureNewline(lines, edited)
               /\ written' = new_lines'
               /\ tpc' = "written"
          ELSE /\ new_lines' = edited
               /\ written' = written
               /\ tpc' = "unchanged"

\* lines 50-78 and 95-104: a Python file
TouchPy ==
    /\ tpc = "start"
    /\ file.suffix = ".py" /\ file.st_size <= SizeLimit
    /\ lines # <<>>
    /\ \E blank \in BOOLEAN, doc \in BOOLEAN :
       \E idx \in IF blank /\ Len(lines) > PyBlankMin
                    THEN 2..(Len(lines) - 2) ELSE {0} :
         LET ins == blank /\ Len(lines) > PyBlankMin /\ CanInsertBlank(lines, idx)
             l1 == IF ins THEN Insert(lines, idx, <<"\n">>) ELSE lines
             l2 == TrimAll(l1)
             dodoc == doc /\ DocPositions(l2) # {}
             i == FirstDocPosition(l2)
         IN  \E text \in IF dodoc THEN DocTexts ELSE {"Helper function"} :
               Write(IF dodoc
                       THEN Insert(l2, i + 1, Docstring(At(l2, i), text))
                       ELSE l2,
                     ins \/ AnyTrim(l1) \/ dodoc)
    /\ UNCHANGED <<file, lines>>
    /\ UNCHANGED <<bvars, mvars>>

\* lines 81-93 and 95-104: any other text file
TouchOther ==
    /\ tpc = "start"
    /\ file.suffix \notin {"", ".py"} /\ file.st_size <= SizeLimit
    /\ lines # <<>>
    /\ \E blank \in BOOLEAN :
       \E idx \in IF blank /\ Len(lines) > OtherBlankMin
                    THEN 1..(Len(lines) - 1) ELSE {0} :
         LET l1 == TrimAll(lines)
             ins == blank /\ Len(l1) > OtherBlankMin /\ CanInsertBlank(l1, idx)
             l2 == IF ins THEN Insert(l1, idx, <<"\n">>) ELSE l1
         IN  Write(l2, AnyTrim(lines) \/ ins)
    /\ UNCHANGED <<file, lines>>
    /\ UNCHANGED <<bvars, mvars>>

InitTouch ==
    /\ lines \in FileContents
    /\ file \in { [suffix |-> sfx, st_size |-> Size(lines)] : sfx \in {".py", ".md", ""} }
    /\ new_lines = <<>> /\ written = <<>> /\ tpc = "start"
    /\ BackfillIdle /\ MsgIdle

NextTouch ==
    \/ Skip
    \/ TouchPy
    \/ TouchOther

SpecTouch == InitTouch /\ [][NextTouch]_vars

-----------------------------------------------------------------------------
(* Properties of touch_files, checked under SpecTouch *)

EndsWithNewlineChar(content) == content # <<>> /\ content[Len(content)] = "\n"

\* C9: whatever random edits are applied, the content written to a file ends
\* with a newline if and only if the content read from it did.
C9_TrailingNewlineKept ==
    tpc = "written" =>
        (EndsWithNewlineChar(Content(written)) <=> EndsWithNewlineChar(Content(lines)))

\* a Python file without a final newline that got a blank line and a docstring
C9_Witness ==
    /\ tpc = "written" /\ file.suffix = ".py"
    /\ ~EndsWithNewlineChar(Content(lines))
    /\ Len(written) = Len(lines) + 2
    /\ written[Len(written)] # lines[Len(lines)]

=============================================================================
